---- MODULE Spec2Model ----
(***************************************************************************)
(* Model of i5heu/telegram-json-forwarder.                                 *)
(*                                                                         *)
(* src/main.go is the current revision of the program: an HTTP server with *)
(* a CORS middleware, a health handler and the webhook handler, which      *)
(* formats the decoded payload (with a special block for the "timing"      *)
(* key) and relays it to the Telegram API.  src/unnamed/part_000 is the    *)
(* earlier revision of the same file: no middleware, no timing block.      *)
(* The variable build says which of the two revisions is running.          *)
(*                                                                         *)
(* A message is modelled as the sequence of its lines: every write of the  *)
(* code ends in "\n", so the text is the lines each followed by "\n".      *)
(***************************************************************************)
EXTENDS Integers, Sequences, FiniteSets, TLC

VARIABLES
    build,              \* "main" (src/main.go) or "part_000" (src/unnamed/part_000)
    AllowedCORSOrigin,  \* main.go:16, "" when the environment does not set it
    request,            \* the request being served: path, method, body
    response,           \* what the caller gets: status 0 is "no response written"
    data,               \* the map json.Unmarshal filled (main.go:68)
    message,            \* the text built by sendToTelegram, as lines
    fmtState,           \* "none", "ok" (message built) or "panic" (formatting panicked)
    relay,              \* the outcome of the outbound http.Post of this request
    outbound,           \* the bodies POSTed to the messaging API for this request
    nreq,               \* number of requests served so far
    posts               \* posts[i]: outbound POSTs made on behalf of request i

vars == <<build, AllowedCORSOrigin, request, response, data, message, fmtState,
          relay, outbound, nreq, posts>>

-----------------------------------------------------------------------------
(* Bounds of the model *)

\* Requests served in one behaviour.
MaxRequests == 2
\* Longest "resources" list.
MaxResources == 2

-----------------------------------------------------------------------------
(* Decoded JSON values: what json.Unmarshal stores in an interface{} *)

Str(s) == [kind |-> "string", s |-> s]
Num(n) == [kind |-> "number", n |-> n]
Bool(b) == [kind |-> "bool", b |-> b]
Null == [kind |-> "null"]
Obj(m) == [kind |-> "object", m |-> m]
Arr(a) == [kind |-> "array", a |-> a]

\* Every key the model uses, in the byte order Go's fmt sorts map keys by.
KeyOrder ==
    << "connectEnd", "connectStart", "domComplete", "domContentLoadedEventEnd",
       "domLoading", "domainLookupEnd", "domainLookupStart", "duration",
       "fetchStart", "loadEventEnd", "loadEventStart", "name", "navigationStart",
       "redirectEnd", "redirectStart", "requestStart", "resources", "responseEnd",
       "responseStart", "secureConnectionStart", "timing", "url" >>

SortedKeys(m) == SelectSeq(KeyOrder, LAMBDA k : k \in DOMAIN m)

RECURSIVE Join(_)
Join(ss) ==
    IF ss = <<>> THEN ""
    ELSE IF Len(ss) = 1 THEN ss[1]
    ELSE ss[1] \o " " \o Join(Tail(ss))

\* fmt's %v of a decoded JSON value.
RECURSIVE Render(_)
Render(v) ==
    CASE v.kind = "string" -> v.s
      [] v.kind = "number" -> ToString(v.n)
      [] v.kind = "bool" -> IF v.b THEN "true" ELSE "false"
      [] v.kind = "null" -> "<nil>"
      [] v.kind = "object" ->
            LET ks == SortedKeys(v.m)
            IN "map[" \o Join([i \in 1..Len(ks) |-> ks[i] \o ":" \o Render(v.m[ks[i]])])
                      \o "]"
      [] v.kind = "array" ->
            "[" \o Join([i \in 1..Len(v.a) |-> Render(v.a[i])]) \o "]"

\* fmt's %.2f of a whole number of milliseconds (the timestamps of the model
\* are whole numbers, as those of the Navigation Timing API are).
Fixed2(n) == ToString(n) \o ".00"

-----------------------------------------------------------------------------
(* Iteration orders of Go's range over a map *)

RECURSIVE Perms(_)
Perms(S) ==
    IF S = {} THEN {<<>>}
    ELSE UNION {{<<x>> \o p : p \in Perms(S \ {x})} : x \in S}

Reverse(s) == [i \in 1..Len(s) |-> s[Len(s) + 1 - i]]
Rotate(s, k) == [i \in 1..Len(s) |-> s[((i + k - 1) % Len(s)) + 1]]
\* A family of orders of s that contains every order of any three of its
\* elements: the rotations of s and their reverses.
Rotations(s) ==
    {Rotate(s, k) : k \in 0..(Len(s) - 1)}
        \cup {Reverse(Rotate(s, k)) : k \in 0..(Len(s) - 1)}

-----------------------------------------------------------------------------
(* formatTimingData, main.go:84-115 *)

TimingFields ==
    { "navigationStart", "redirectEnd", "redirectStart", "domainLookupStart",
      "fetchStart", "domainLookupEnd", "connectEnd", "connectStart",
      "secureConnectionStart", "responseStart", "requestStart", "responseEnd",
      "domComplete", "domLoading", "loadEventEnd", "loadEventStart",
      "domContentLoadedEventEnd" }

\* timingData[k].(float64) succeeds: the key is there and holds a number.
IsFloat64(timingData, k) == k \in DOMAIN timingData /\ timingData[k].kind = "number"

Labels ==
    << "Redirect", "AppCache", "DNS Lookup", "TCP Connection", "SSL Handshake",
       "Request Sent", "Response Received", "DOM Processing", "Load Event",
       "DOMContentLoaded", "Finish" >>

\* The map literal of main.go:88-100, for a timingData whose fields are all numbers.
calculatedTimes(t) ==
    LET navigationStart == t["navigationStart"].n
    IN  "Redirect" :> (t["redirectEnd"].n - t["redirectStart"].n)
     @@ "AppCache" :> (t["domainLookupStart"].n - t["fetchStart"].n)
     @@ "DNS Lookup" :> (t["domainLookupEnd"].n - t["domainLookupStart"].n)
     @@ "TCP Connection" :> (t["connectEnd"].n - t["connectStart"].n)
     @@ "SSL Handshake" :> (t["connectEnd"].n - t["secureConnectionStart"].n)
     @@ "Request Sent" :> (t["responseStart"].n - t["requestStart"].n)
     @@ "Response Received" :> (t["responseEnd"].n - t["responseStart"].n)
     @@ "DOM Processing" :> (t["domComplete"].n - t["domLoading"].n)
     @@ "Load Event" :> (t["loadEventEnd"].n - t["loadEventStart"].n)
     @@ "DOMContentLoaded" :> (t["domContentLoadedEventEnd"].n - navigationStart)
     @@ "Finish" :> (t["loadEventEnd"].n - navigationStart)

IntervalLine(label, value) == "*" \o label \o ":* " \o Fixed2(value) \o " ms"

\* A faulty variant of Emitted: the filter lets a zero interval through.
EmittedNonNegative(value) == value >= 0

\* The filter of main.go:105.
Emitted(value) == value > 0

\* A faulty variant of formatTimingData: the loop stops at the first interval that is
\* not positive instead of skipping it.
formatTimingDataBreak(timingData, ord) ==
    IF \E k \in TimingFields : ~IsFloat64(timingData, k)
    THEN [panic |-> TRUE, lines |-> <<>>]
    ELSE LET times == calculatedTimes(timingData)
             stop == {i \in 1..Len(ord) : ~Emitted(times[ord[i]])}
             shown == SubSeq(ord, 1, IF stop = {} THEN Len(ord)
                                     ELSE (CHOOSE i \in stop : \A j \in stop : i <= j) - 1)
             domLoadingTime ==
                 timingData["domLoading"].n - timingData["navigationStart"].n
         IN [panic |-> FALSE,
             lines |-> <<"*Waterfall Timing (in ms):*">>
                       \o [i \in 1..Len(shown) |-> IntervalLine(shown[i], times[shown[i]])]
                       \o <<"", IntervalLine("DOM Loading Time", domLoadingTime)>>]

\* ord: the order in which range visits calculatedTimes.
formatTimingData(timingData, ord) ==
    IF \E k \in TimingFields : ~IsFloat64(timingData, k)
    THEN [panic |-> TRUE, lines |-> <<>>]
    ELSE LET times == calculatedTimes(timingData)
             shown == SelectSeq(ord, LAMBDA l : Emitted(times[l]))
             domLoadingTime ==
                 timingData["domLoading"].n - timingData["navigationStart"].n
         IN [panic |-> FALSE,
             lines |-> <<"*Waterfall Timing (in ms):*">>
                       \o [i \in 1..Len(shown) |-> IntervalLine(shown[i], times[shown[i]])]
                       \o <<"", IntervalLine("DOM Loading Time", domLoadingTime)>>]

-----------------------------------------------------------------------------
(* The message of sendToTelegram, main.go:118-130 and part_000:61-65 *)

FieldLine(key, value) == "*" \o key \o ":* " \o Render(value)

\* One iteration of the loop of main.go:121-130.
WriteField(key, value, tOrd) ==
    IF key = "timing"
    THEN IF value.kind = "object"
         THEN formatTimingData(value.m, tOrd)
         ELSE [panic |-> FALSE, lines |-> <<>>]
    ELSE [panic |-> FALSE, lines |-> <<FieldLine(key, value)>>]

RECURSIVE RangeData(_, _, _)
RangeData(d, keyOrd, tOrd) ==
    IF keyOrd = <<>> THEN [panic |-> FALSE, lines |-> <<>>]
    ELSE LET h == WriteField(Head(keyOrd), d[Head(keyOrd)], tOrd)
             r == RangeData(d, Tail(keyOrd), tOrd)
         IN IF h.panic \/ r.panic
            THEN [panic |-> TRUE, lines |-> <<>>]
            ELSE [panic |-> FALSE, lines |-> h.lines \o r.lines]

\* main.go:118-130. keyOrd: the order in which range visits data.
FormatMessage(d, keyOrd, tOrd) ==
    LET r == RangeData(d, keyOrd, tOrd)
    IN IF r.panic THEN r
       ELSE [panic |-> FALSE, lines |-> <<"*Received message:*", "">> \o r.lines]

\* part_000:61-65.
FormatMessage0(d, keyOrd) ==
    [panic |-> FALSE,
     lines |-> <<"*Received message:*">>
               \o [i \in 1..Len(keyOrd) |-> FieldLine(keyOrd[i], d[keyOrd[i]])]]

-----------------------------------------------------------------------------
(* The relay: sendToTelegram, main.go:117-156 and part_000:60-93 *)

StatusOK == 200
StatusBadRequest == 400
StatusMethodNotAllowed == 405
StatusInternalServerError == 500

\* main.go:14-15: main exits unless both are set.
TelegramBotToken == "token"
TelegramChatID == "chat"

\* What http.Post can come back with: a transport error, or a response.
NetOutcomes ==
    {[err |-> TRUE, status |-> 0]}
        \cup {[err |-> FALSE, status |-> s] : s \in {200, 204, 500}}

NoRelay == [called |-> FALSE, err |-> FALSE, status |-> 0]

\* main.go:132-140: the URL and the JSON body of the outbound POST.
Outbound(lines) ==
    [url |-> "https://api.telegram.org/bot" \o TelegramBotToken \o "/sendMessage",
     chat_id |-> TelegramChatID, text |-> lines, parse_mode |-> "Markdown"]

\* A faulty variant of PostError: any 2xx answer counts as delivered.
PostErrorNon2xx(net) == net.err \/ net.status < 200 \/ net.status > 299

\* main.go:145-155: the error sendToTelegram returns after the POST.
PostError(net) == net.err \/ net.status # StatusOK

\* A faulty variant of sendToTelegram: a failed POST is tried once more.
sendToTelegramRetry(d, env) ==
    LET f == FormatMessage(d, env.keyOrd, env.tOrd)
    IN IF f.panic
       THEN [panic |-> TRUE, err |-> FALSE, message |-> <<>>, outbound |-> <<>>,
             relay |-> NoRelay]
       ELSE [panic |-> FALSE, err |-> PostError(env.net), message |-> f.lines,
             outbound |-> IF PostError(env.net)
                          THEN <<Outbound(f.lines), Outbound(f.lines)>>
                          ELSE <<Outbound(f.lines)>>,
             relay |-> [called |-> TRUE, err |-> env.net.err,
                        status |-> env.net.status]]

\* env: the iteration orders and the network outcome this call meets.
sendToTelegram(d, env) ==
    LET f == FormatMessage(d, env.keyOrd, env.tOrd)
    IN IF f.panic
       THEN [panic |-> TRUE, err |-> FALSE, message |-> <<>>, outbound |-> <<>>,
             relay |-> NoRelay]
       ELSE [panic |-> FALSE, err |-> PostError(env.net), message |-> f.lines,
             outbound |-> <<Outbound(f.lines)>>,
             relay |-> [called |-> TRUE, err |-> env.net.err,
                        status |-> env.net.status]]

sendToTelegram0(d, env) ==
    LET f == FormatMessage0(d, env.keyOrd)
    IN [panic |-> FALSE, err |-> PostError(env.net), message |-> f.lines,
        outbound |-> <<Outbound(f.lines)>>,
        relay |-> [called |-> TRUE, err |-> env.net.err, status |-> env.net.status]]

-----------------------------------------------------------------------------
(* The handlers *)

\* A faulty variant of Unmarshal: a JSON array is taken for an empty object.
UnmarshalLenient(body) ==
    IF ~body.wellformed THEN [err |-> TRUE, data |-> <<>>]
    ELSE IF body.value.kind = "object" THEN [err |-> FALSE, data |-> body.value.m]
    ELSE IF body.value.kind \in {"null", "array"} THEN [err |-> FALSE, data |-> <<>>]
    ELSE [err |-> TRUE, data |-> <<>>]

\* json.Unmarshal(body, &data) with data a map[string]interface{}, main.go:68-72:
\* malformed text and a JSON value that is no object are errors, except null,
\* which leaves the map nil and returns no error.
Unmarshal(body) ==
    IF ~body.wellformed THEN [err |-> TRUE, data |-> <<>>]
    ELSE IF body.value.kind = "object" THEN [err |-> FALSE, data |-> body.value.m]
    ELSE IF body.value.kind = "null" THEN [err |-> FALSE, data |-> <<>>]
    ELSE [err |-> TRUE, data |-> <<>>]

\* What a handler leaves behind; status 0: nothing was written to the caller.
\* cors: the Access-Control headers are set on the ResponseWriter.
Outcome(status, text, d, s) ==
    [response |-> [status |-> status, text |-> text, cors |-> FALSE],
     data |-> d, message |-> s.message,
     fmtState |-> IF s.panic THEN "panic" ELSE IF s.relay.called THEN "ok" ELSE "none",
     relay |-> s.relay, outbound |-> s.outbound]

NotSent ==
    [panic |-> FALSE, err |-> FALSE, message |-> <<>>, outbound |-> <<>>,
     relay |-> NoRelay]

\* http.Error(w, text, code)
Error(text, code) == Outcome(code, text, <<>>, NotSent)

\* A faulty variant of MethodOK: only GET is turned away.
MethodNotGet(method) == method # "GET"

\* main.go:56
MethodOK(method) == method = "POST"

\* main.go:55-82. A panic in sendToTelegram unwinds the handler: net/http
\* recovers it and closes the connection, nothing is written.
webhookHandler(r, env) ==
    IF ~MethodOK(r.method)
    THEN Error("Invalid request method", StatusMethodNotAllowed)
    ELSE IF ~r.body.readable
    THEN Error("Could not read request body", StatusBadRequest)
    ELSE LET u == Unmarshal(r.body)
         IN IF u.err
            THEN Error("Could not parse JSON", StatusBadRequest)
            ELSE LET s == sendToTelegram(u.data, env)
                 IN IF s.panic THEN Outcome(0, "", u.data, s)
                    ELSE IF s.err
                    THEN Outcome(StatusInternalServerError, "Error", u.data, s)
                    ELSE Outcome(StatusOK, "OK", u.data, s)

\* part_000:32-58
webhookHandler0(r, env) ==
    IF ~MethodOK(r.method)
    THEN Error("Invalid request method", StatusMethodNotAllowed)
    ELSE IF ~r.body.readable
    THEN Error("Could not read request body", StatusBadRequest)
    ELSE LET u == Unmarshal(r.body)
         IN IF u.err
            THEN Error("Could not parse JSON", StatusBadRequest)
            ELSE LET s == sendToTelegram0(u.data, env)
                 IN IF s.err
                    THEN Outcome(StatusInternalServerError,
                                 "Could not send message to Telegram", u.data, s)
                    ELSE Outcome(StatusOK,
                                 "Message forwarded to Telegram successfully", u.data, s)

\* main.go:50-53
ok(r, env) == Outcome(StatusOK, "OK", <<>>, NotSent)

\* main.go:32-48
\* next: what next.ServeHTTP(w, r) leaves behind, when it is called.
corsMiddleware(next, r) ==
    LET o == IF r.method = "OPTIONS"
             THEN Outcome(StatusOK, "", <<>>, NotSent)
             ELSE next
    IN [o EXCEPT !.response.cors = (AllowedCORSOrigin # "")]

-----------------------------------------------------------------------------
(* Inputs *)

Absent == [kind |-> "absent"]

Stamps == {0, 10, 50}
LookupStamps == {10, 50}
\* The timestamp of every field the model does not vary.
BaseStamp == 10

\* A timing mapping with every field, all numbers.
Timing(ns, dls, dle) ==
    [f \in TimingFields |->
        Num(CASE f = "navigationStart" -> ns
              [] f = "domainLookupStart" -> dls
              [] f = "domainLookupEnd" -> dle
              [] OTHER -> BaseStamp)]

FullTimings == {Timing(ns, dls, dle) : ns \in Stamps, dls \in LookupStamps, dle \in LookupStamps}

\* navigationStart=0, domainLookupStart=10, domainLookupEnd=50 and nothing else.
DNSOnlyTiming ==
    [f \in {"navigationStart", "domainLookupStart", "domainLookupEnd"} |->
        Num(CASE f = "navigationStart" -> 0
              [] f = "domainLookupStart" -> 10
              [] OTHER -> 50)]

BrokenTimings ==
    { DNSOnlyTiming,
      <<>>,
      [f \in TimingFields \ {"fetchStart"} |-> Num(BaseStamp)],
      [f \in TimingFields |-> IF f = "domLoading" THEN Str("x") ELSE Num(BaseStamp)] }

FlatValues == {Str("x"), Num(5), Bool(TRUE)}

ResourceList(n) == Arr([i \in 1..n |-> Obj([name |-> Str("r"), duration |-> Num(i)])])

\* The objects with keys among url, timing and resources, values from U, T, R.
PayloadsOf(U, T, R) ==
    { LET v == [url |-> u, timing |-> t, resources |-> r]
      IN [k \in {k \in {"url", "timing", "resources"} : v[k] # Absent} |-> v[k]]
      : u \in U \cup {Absent}, t \in T \cup {Absent}, r \in R \cup {Absent} }

Payloads ==
    PayloadsOf({Str("x"), Num(5)},
               FlatValues \cup {Obj(t) : t \in FullTimings \cup BrokenTimings},
               {Bool(TRUE)} \cup {ResourceList(n) : n \in 0..MaxResources})

ServerPayloads ==
    PayloadsOf({Str("x")},
               {Str("x"), Obj(DNSOnlyTiming), Obj(Timing(0, 10, 50))},
               {})

Bodies ==
    { [readable |-> FALSE, wellformed |-> FALSE, value |-> Null],
      [readable |-> TRUE, wellformed |-> FALSE, value |-> Null] }
        \cup { [readable |-> TRUE, wellformed |-> TRUE, value |-> v] :
                v \in {Null, Str("x"), Num(5), Bool(TRUE), Arr(<<>>)}
                        \cup {Obj(p) : p \in ServerPayloads} }

Methods == {"GET", "POST", "PUT", "DELETE", "OPTIONS"}

Requests(path) == [path : {path}, method : Methods, body : Bodies]

\* The map the handler would hand to sendToTelegram.
Decoded(r) ==
    IF r.body.readable /\ ~Unmarshal(r.body).err THEN Unmarshal(r.body).data ELSE <<>>

HasTimingBlock(d) == "timing" \in DOMAIN d /\ d["timing"].kind = "object"

\* The orders in which the loops of a formatting of d can visit their maps.
Orders(d) ==
    [keyOrd : Perms(DOMAIN d),
     tOrd : IF HasTimingBlock(d) THEN Rotations(Labels) ELSE {Labels}]

\* What a call of sendToTelegram on d can meet.
Envs(d) ==
    {[keyOrd |-> o.keyOrd, tOrd |-> o.tOrd, net |-> n] : o \in Orders(d), n \in NetOutcomes}

-----------------------------------------------------------------------------
(* The server *)

NoRequest ==
    [path |-> "", method |-> "",
     body |-> [readable |-> FALSE, wellformed |-> FALSE, value |-> Null]]

Init ==
    /\ build \in {"main", "part_000"}
    /\ AllowedCORSOrigin \in
          (IF build = "main" THEN {"", "https://example.org"} ELSE {""})
    /\ request = NoRequest
    /\ response = [status |-> 0, text |-> "", cors |-> FALSE]
    /\ data = <<>>
    /\ message = <<>>
    /\ fmtState = "none"
    /\ relay = NoRelay
    /\ outbound = <<>>
    /\ nreq = 0
    /\ posts = [i \in 1..MaxRequests |-> 0]

\* Request r was served with outcome o.
Served(r, o) ==
    /\ request' = r
    /\ response' = o.response
    /\ data' = o.data
    /\ message' = o.message
    /\ fmtState' = o.fmtState
    /\ relay' = o.relay
    /\ outbound' = o.outbound
    /\ nreq' = nreq + 1
    /\ posts' = [posts EXCEPT ![nreq + 1] = Len(o.outbound)]
    /\ UNCHANGED <<build, AllowedCORSOrigin>>

\* main.go:23
Webhook ==
    /\ build = "main"
    /\ nreq < MaxRequests
    /\ \E r \in Requests("/webhook") : \E env \in Envs(Decoded(r)) :
          Served(r, corsMiddleware(webhookHandler(r, env), r))

\* main.go:24
Health ==
    /\ build = "main"
    /\ nreq < MaxRequests
    /\ \E r \in Requests("/") : \E env \in Envs(<<>>) :
          Served(r, corsMiddleware(ok(r, env), r))

\* part_000:23
Webhook0 ==
    /\ build = "part_000"
    /\ nreq < MaxRequests
    /\ \E r \in Requests("/webhook") : \E env \in Envs(Decoded(r)) :
          Served(r, webhookHandler0(r, env))

Next == Webhook \/ Health \/ Webhook0

Spec == Init /\ [][Next]_vars

-----------------------------------------------------------------------------
(* The formatter on its own: the payload is drawn once, then formatted again *)
(* and again, each time in whatever order range visits the maps.            *)

InitFormat ==
    /\ build \in {"main", "part_000"}
    /\ AllowedCORSOrigin = ""
    /\ request = NoRequest
    /\ response = [status |-> 0, text |-> "", cors |-> FALSE]
    /\ data \in Payloads
    /\ message = <<>>
    /\ fmtState = "none"
    /\ relay = NoRelay
    /\ outbound = <<>>
    /\ nreq = 0
    /\ posts = [i \in 1..MaxRequests |-> 0]

Formatted(f) ==
    /\ message' = f.lines
    /\ fmtState' = IF f.panic THEN "panic" ELSE "ok"
    /\ UNCHANGED <<build, AllowedCORSOrigin, request, response, data, relay,
                   outbound, nreq, posts>>

Format ==
    /\ build = "main"
    /\ \E o \in Orders(data) : Formatted(FormatMessage(data, o.keyOrd, o.tOrd))

Format0 ==
    /\ build = "part_000"
    /\ \E o \in Orders(data) : Formatted(FormatMessage0(data, o.keyOrd))

NextFormat == Format \/ Format0

SpecFormat == InitFormat /\ [][NextFormat]_vars

-----------------------------------------------------------------------------
(* Properties *)

Range(f) == {f[i] : i \in DOMAIN f}
Count(lines, l) == Cardinality({i \in DOMAIN lines : lines[i] = l})

WebhookPost == request.path = "/webhook" /\ request.method = "POST"
ObjectBody ==
    request.body.readable /\ request.body.wellformed
        /\ request.body.value.kind = "object"

\* Every difference of two timestamps of the model.
Diffs ==
    LET all == Stamps \cup LookupStamps \cup {BaseStamp}
    IN {a - b : a \in all, b \in all}

\* C1 as claimed: a POST to /webhook whose body cannot be read or is not a JSON
\* object is answered 400 and nothing is POSTed to the messaging API.
C1_AsClaimed ==
    (WebhookPost /\ ~ObjectBody) =>
        (response.status = StatusBadRequest /\ outbound = <<>>)

\* C1 amended: a POST to /webhook whose body cannot be read, is malformed JSON,
\* or is a JSON array, string, number or boolean is answered 400 and nothing is
\* POSTed to the messaging API for it; the body null is no error: it is
\* relayed as an empty object.
C1_BadBodyRejected ==
    /\ (WebhookPost /\ (~request.body.readable \/ ~request.body.wellformed
                          \/ request.body.value.kind \notin {"object", "null"}))
          => (response.status = StatusBadRequest /\ outbound = <<>>
                /\ ~relay.called /\ posts[nreq] = 0)
    /\ (WebhookPost /\ request.body.readable /\ request.body.wellformed
          /\ request.body.value.kind = "null")
          => (relay.called /\ Len(outbound) = 1
                /\ Range(outbound[1].text) \subseteq {"*Received message:*", ""}
                /\ response.status \in {StatusOK, StatusInternalServerError})

C1_Witness ==
    /\ WebhookPost
    /\ request.body.readable /\ request.body.wellformed
    /\ request.body.value.kind = "array"
    /\ response.status = StatusBadRequest
    /\ outbound = <<>>

\* C2: for a POST to /webhook with a JSON object body, an outbound call that
\* fails in the network or is answered with a status other than 200 makes the
\* handler answer 500, and one that is answered 200 makes it answer 200.
C2_RelayDecidesStatus ==
    (WebhookPost /\ ObjectBody /\ relay.called) =>
        /\ (relay.err \/ relay.status # 200)
              => response.status = StatusInternalServerError
        /\ (~relay.err /\ relay.status = 200) => response.status = StatusOK

C2_Witness ==
    /\ WebhookPost /\ ObjectBody
    /\ relay.called /\ ~relay.err /\ relay.status = 204
    /\ response.status = StatusInternalServerError

\* C3 as claimed: every request to /webhook that is not a POST is answered
\* 405 and triggers no outbound call.
C3_AsClaimed ==
    (request.path = "/webhook" /\ request.method \notin {"", "POST"}) =>
        (response.status = StatusMethodNotAllowed /\ outbound = <<>>)

\* C3 amended: every request to /webhook whose method is neither POST nor
\* OPTIONS is answered 405, with or without an allowed CORS origin, and
\* triggers no outbound call; OPTIONS triggers none either, and is answered
\* 200 by the CORS middleware of main.go (405 in the revision without it).
C3_NonPostRejected ==
    (request.path = "/webhook" /\ request.method \notin {"", "POST"}) =>
        /\ outbound = <<>> /\ ~relay.called /\ posts[nreq] = 0
        /\ request.method # "OPTIONS" => response.status = StatusMethodNotAllowed
        /\ request.method = "OPTIONS" =>
              response.status = (IF build = "main" THEN StatusOK
                                 ELSE StatusMethodNotAllowed)

C3_Witness ==
    /\ request.path = "/webhook" /\ request.method = "DELETE"
    /\ AllowedCORSOrigin # "" /\ response.cors
    /\ request.body.value.kind = "object"
    /\ response.status = StatusMethodNotAllowed

IsFlat(d) == \A k \in DOMAIN d : d[k].kind \in {"string", "number", "bool"}

\* C4 as claimed: the message formatted from a flat object holds, for each of
\* its keys, the key "timing" included, exactly one line "*key:* value".
C4_AsClaimed ==
    (fmtState = "ok" /\ IsFlat(data)) =>
        \A k \in DOMAIN data : Count(message, FieldLine(k, data[k])) = 1

\* C5 as claimed: the payload whose timing holds navigationStart=0,
\* domainLookupStart=10, domainLookupEnd=50 and nothing else is formatted into
\* a message with the line "DNS Lookup" = 40.
C5_AsClaimed ==
    (build = "main" /\ fmtState # "none" /\ "timing" \in DOMAIN data
        /\ data["timing"] = Obj(DNSOnlyTiming)) =>
        (fmtState = "ok" /\ IntervalLine("DNS Lookup", 40) \in Range(message))

\* The blank lines of a message after those of its header.
Separators(lines) == Cardinality({i \in DOMAIN lines : i > 2 /\ lines[i] = ""})

\* C6 as claimed: a resources list of N mappings is formatted into N blocks,
\* each followed by a blank line: N blank lines follow the header.
C6_AsClaimed ==
    (build = "main" /\ fmtState = "ok" /\ "resources" \in DOMAIN data
        /\ data["resources"].kind = "array" /\ ~HasTimingBlock(data)) =>
        Separators(message) = Len(data["resources"].a)

\* C7 as claimed: no interval line of the timing block, the DOM Loading Time
\* line included, carries a value that is zero or negative.
C7_AsClaimed ==
    (build = "main" /\ fmtState = "ok") =>
        \A l \in Range(Labels) \cup {"DOM Loading Time"} : \A v \in Diffs :
            IntervalLine(l, v) \in Range(message) => v > 0

\* C7 amended: each of the eleven interval lines computed in calculatedTimes
\* (Redirect ... Finish) is emitted only with a strictly positive value, an
\* interval that is zero or negative produces no line; the closing DOM Loading
\* Time line is always emitted, whatever its value.
C7_PositiveIntervals ==
    (build = "main" /\ fmtState = "ok") =>
        /\ \A l \in Range(Labels) : \A v \in Diffs :
              IntervalLine(l, v) \in Range(message) => v > 0
        /\ HasTimingBlock(data) =>
              LET t == data["timing"].m
              IN Count(message, IntervalLine("DOM Loading Time",
                                             t["domLoading"].n - t["navigationStart"].n)) = 1

C7_Witness ==
    /\ build = "main" /\ fmtState = "ok" /\ HasTimingBlock(data)
    /\ LET t == data["timing"].m
       IN /\ t["domainLookupEnd"].n - t["domainLookupStart"].n < 0
          /\ t["redirectEnd"].n - t["redirectStart"].n = 0
          /\ t["domainLookupStart"].n - t["fetchStart"].n > 0
          /\ IntervalLine("AppCache", t["domainLookupStart"].n - t["fetchStart"].n)
                \in Range(message)
          /\ \E v \in Diffs : v < 0 /\ IntervalLine("DOM Loading Time", v) \in Range(message)

\* C8 as claimed: a POST to /webhook with a JSON object body ends either with
\* the message sent and 200 returned, or with an error response; the handler
\* never ends without writing a response.
C8_AsClaimed ==
    (WebhookPost /\ ObjectBody) =>
        \/ (response.status = StatusOK /\ Len(outbound) = 1 /\ relay.called
              /\ ~relay.err /\ relay.status = 200)
        \/ response.status >= 400

\* C9: no request causes more than one outbound POST, neither while it is
\* served nor later; a failed POST is answered with an error and not repeated.
C9_AtMostOnePost ==
    /\ Len(outbound) <= 1
    /\ \A i \in 1..MaxRequests : posts[i] <= 1 /\ (i > nreq => posts[i] = 0)
    /\ (relay.called /\ (relay.err \/ relay.status < 200 \/ relay.status > 299))
          => (response.status = StatusInternalServerError /\ posts[nreq] = 1)

C9_Witness ==
    /\ nreq >= 2
    /\ posts[1] = 1
    /\ relay.called /\ relay.err
    /\ response.status = StatusInternalServerError
    /\ posts[nreq] = 1

SameLines(a, b) == \A l \in Range(a) \cup Range(b) : Count(a, l) = Count(b, l)

\* C10: formatting the same payload again, in whatever order the maps are
\* visited, gives the same lines the same number of times, the header first;
\* and a formatting that panics panics again.
C10_SameLines ==
    [][(fmtState # "none" /\ data' = data) =>
          /\ fmtState' = fmtState
          /\ fmtState = "ok" =>
                /\ SameLines(message, message')
                /\ message[1] = "*Received message:*"
                /\ message'[1] = "*Received message:*"]_vars

\* A message whose top-level keys and whose intervals both came out in
\* another order than the sorted one.
C10_Witness ==
    /\ build = "main" /\ fmtState = "ok" /\ HasTimingBlock(data)
    /\ Cardinality(DOMAIN data) = 3
    /\ \E i, j \in DOMAIN message :
          /\ i < j
          /\ message[i] = FieldLine("url", data["url"])
          /\ message[j] = FieldLine("resources", data["resources"])
    /\ \E i, j \in DOMAIN message : \E v, w \in Diffs :
          /\ i < j
          /\ message[i] = IntervalLine("Finish", v)
          /\ message[j] = IntervalLine("DNS Lookup", w)

====
